---- MODULE Spec2Model ----
(***************************************************************************)
(* Sure-Proxies-Server: UserService (user.service.ts) and AuthController   *)
(* (auth.controller.ts) as request handlers that suspend at every await.   *)
(* The identity provider (dbAuth), the document store (db) and the SMTP    *)
(* transport are the shared / external collaborators; every await on one   *)
(* of them is one step of the handler, so handlers of different requests   *)
(* interleave exactly at the awaits.                                       *)
(***************************************************************************)
EXTENDS Integers, Sequences, FiniteSets, TLC

\* ---- bounds of the model ----
MaxAccounts == 2        \* accounts the identity provider may hold
MaxRequests == 3        \* requests started in one behaviour

Slots == {"r1", "r2"}   \* requests in flight at the same time
Uids == 1..MaxAccounts  \* provider-issued uids (the n-th account gets uid n)
Emails == {"a@x.com", "b@x.com"}

\* ---- HTTP statuses (HttpStatus of @nestjs/common) ----
OK == 200
BAD_REQUEST == 400
UNAUTHORIZED == 401
NOT_FOUND == 404
INTERNAL_SERVER_ERROR == 500

twelveHoursMs == 12 * 60 * 60 * 1000

VARIABLES
    accounts,   \* identity provider: sequence of emails, uid = position
    users,      \* collection 'users': function from document key to document
    smtp,       \* SMTP_HOST, SMTP_PORT, SMTP_USER and SMTP_PASS all set
    req,        \* per slot: the handler running there, its position and locals
    cookie,     \* the client's sp_auth cookie: "unset", "session", "cleared"
    removed,    \* keys whose document a completed delete removed, not rewritten by create since
    started     \* number of requests started

vars == <<accounts, users, smtp, req, cookie, removed, started>>

\* ---- values ----
NoValue == <<>>     \* undefined / no document / no returned value

\* Errors raised by the collaborators, as far as the handlers look at them:
\* err.code and whether err.message contains the text 'user'.
UserNotFoundErr == [code |-> "auth/user-not-found", msgUser |-> TRUE]
OtherErrs == {[code |-> "other", msgUser |-> b] : b \in BOOLEAN}
NoErr == [code |-> "none", msgUser |-> FALSE]

\* The partial documents Update is called with.
Partials ==
    {[fullName |-> "B"]} \cup {[uid |-> u] : u \in Uids}

Idle ==
    [op |-> "none", pc |-> "idle", email |-> "", id |-> 0, model |-> NoValue,
     uid |-> 0, user |-> NoValue, status |-> 0, ret |-> NoValue,
     lookup |-> "none", linkGen |-> FALSE, sent |-> FALSE,
     emailRaised |-> "none", cause |-> "none", err |-> NoErr,
     setCookie |-> NoValue]

\* A handler that has returned (status OK) or thrown (any other status).
Done(r, status, cause, ret) ==
    [r EXCEPT !.pc = "done", !.status = status, !.cause = cause, !.ret = ret]

Begin(op, pc) == [Idle EXCEPT !.op = op, !.pc = pc]

CanStart(s) == req[s].pc = "idle" /\ started < MaxRequests

\* ---- the document store ----
Exists(id) == id \in DOMAIN users

\* userRef.set(userData): creates or replaces the document under userId.
SetDoc(store, userId, userData) ==
    [k \in DOMAIN store \cup {userId} |-> IF k = userId THEN userData ELSE store[k]]

\* doc(id).delete()
DeleteDoc(store, id) == [k \in DOMAIN store \ {id} |-> store[k]]

\* { ...user, ...model }: the fields of model laid over those of user.
Spread(user, model) ==
    [k \in DOMAIN user \cup DOMAIN model |->
        IF k \in DOMAIN model THEN model[k] ELSE user[k]]

\* ---- the identity provider ----
AccountUids == 1..Len(accounts)
HasAccount(email) == \E u \in AccountUids : accounts[u] = email

Init ==
    /\ accounts = <<>>
    /\ users = NoValue
    /\ smtp \in BOOLEAN
    /\ req = [s \in Slots |-> Idle]
    /\ cookie = "unset"
    /\ removed = {}
    /\ started = 0

\* ======================= UserService.create =============================

StartCreate(s, email) ==
    /\ CanStart(s)
    /\ req' = [req EXCEPT ![s] = [Begin("create", "create_createUser") EXCEPT !.email = email]]
    /\ started' = started + 1
    /\ UNCHANGED <<accounts, users, smtp, cookie, removed>>

\* await dbAuth.createUser(...): the provider creates the account and issues
\* its uid, or rejects (duplicate email, weak password, outage); a rejection
\* is rethrown by the outer catch.
CreateUser(s) ==
    /\ req[s].pc = "create_createUser"
    /\ \/ /\ ~HasAccount(req[s].email)
          /\ Len(accounts) < MaxAccounts
          /\ accounts' = Append(accounts, req[s].email)
          /\ req' = [req EXCEPT ![s] = [@ EXCEPT !.pc = "create_saveUser",
                                                 !.uid = Len(accounts) + 1]]
       \/ /\ req' = [req EXCEPT ![s] = Done(@, INTERNAL_SERVER_ERROR, "createUser", NoValue)]
          /\ UNCHANGED accounts
    /\ UNCHANGED <<users, smtp, cookie, removed, started>>

\* The document create writes under record.uid.
NewUserDoc(uid, email) ==
    [uid |-> uid, email |-> email, fullName |-> "A", phoneNumber |-> "p",
     createdAt |-> "now", lastLogin |-> "now", purchases |-> <<>>, role |-> "USER"]

\* await this.saveUser(record.uid, {...}): set, or HttpException 500 when set rejects.
CreateSaveUser(s) ==
    /\ req[s].pc = "create_saveUser"
    /\ \/ /\ users' = SetDoc(users, req[s].uid, NewUserDoc(req[s].uid, req[s].email))
          /\ removed' = removed \ {req[s].uid}
          /\ req' = [req EXCEPT ![s] = [@ EXCEPT !.pc = "create_email"]]
       \/ /\ req' = [req EXCEPT ![s] = Done(@, INTERNAL_SERVER_ERROR, "saveUser", NoValue)]
          /\ UNCHANGED <<users, removed>>
    /\ UNCHANGED <<accounts, smtp, cookie, started>>

\* sendEmailVerification whose catch rethrows what it caught.
sendEmailVerificationRethrows(linkOk, sendOk) ==
    [linkGen |-> TRUE,
     sent |-> linkOk /\ smtp,
     raised |-> IF ~linkOk THEN "link" ELSE IF smtp /\ ~sendOk THEN "mail" ELSE "none",
     threw |-> ~linkOk \/ (smtp /\ ~sendOk)]

\* sendEmailVerification(uid, email): asks the provider for a link, sends it
\* when SMTP is configured, logs it otherwise; the catch around the whole body
\* logs whatever was raised.  linkOk / sendOk: whether the provider and the
\* transport answer.  Result: what was called and what was raised, and whether
\* the method itself throws.
sendEmailVerification(linkOk, sendOk) ==
    [linkGen |-> TRUE,
     sent |-> linkOk /\ smtp,
     raised |-> IF ~linkOk THEN "link" ELSE IF smtp /\ ~sendOk THEN "mail" ELSE "none",
     threw |-> FALSE]

\* create that gives up when the email was not sent.
CreateAfterEmailFatal(r, out) ==
    IF out.raised # "none"
    THEN Done([r EXCEPT !.linkGen = out.linkGen, !.sent = out.sent, !.emailRaised = out.raised],
              INTERNAL_SERVER_ERROR, "email", NoValue)
    ELSE [r EXCEPT !.pc = "create_reread", !.linkGen = out.linkGen, !.sent = out.sent,
                   !.emailRaised = out.raised]

\* What create does after the email attempt: the try/catch around the call
\* warns and goes on to the re-read, whatever happened.
CreateAfterEmail(r, out) ==
    [r EXCEPT !.pc = "create_reread", !.linkGen = out.linkGen, !.sent = out.sent,
              !.emailRaised = out.raised]

CreateSendEmail(s) ==
    /\ req[s].pc = "create_email"
    /\ \E linkOk, sendOk \in BOOLEAN :
          req' = [req EXCEPT ![s] = CreateAfterEmail(@, sendEmailVerification(linkOk, sendOk))]
    /\ UNCHANGED <<accounts, users, smtp, cookie, removed, started>>

\* The profile create returns: the fields of the re-read document.
Profile(data) ==
    [uid |-> data.uid, email |-> data.email, fullName |-> data.fullName,
     phoneNumber |-> data.phoneNumber, createdAt |-> data.createdAt,
     lastLogin |-> data.lastLogin, purchases |-> data.purchases, role |-> data.role]

\* await db.collection('users').doc(record.uid).get(), then the return.
CreateReread(s) ==
    /\ req[s].pc = "create_reread"
    /\ \/ /\ Exists(req[s].uid)
          /\ req' = [req EXCEPT ![s] = Done(@, OK, "none", Profile(users[req[s].uid]))]
       \/ /\ ~Exists(req[s].uid)
          /\ req' = [req EXCEPT ![s] = Done(@, INTERNAL_SERVER_ERROR, "nodata", NoValue)]
       \/ req' = [req EXCEPT ![s] = Done(@, INTERNAL_SERVER_ERROR, "get", NoValue)]
    /\ UNCHANGED <<accounts, users, smtp, cookie, removed, started>>

\* ======================= UserService.findOne / update / remove ==========

\* findOne without the user.exists test.
findOneUnchecked(id) ==
    [found |-> TRUE,
     user |-> IF Exists(id) THEN Spread([id |-> id], users[id]) ELSE [id |-> id]]

\* findOne(id): the snapshot { id: user.id, ...user.data() } of an existing
\* document; HttpException 404 when user.exists is false.
findOne(id) ==
    IF Exists(id)
    THEN [found |-> TRUE, user |-> Spread([id |-> id], users[id])]
    ELSE [found |-> FALSE, user |-> NoValue]

\* The await of findOne inside a handler: on to pc `next` with the snapshot,
\* 404 when there is no document, 500 when the store's get rejects.
AwaitFindOne(s, next) ==
    \/ /\ findOne(req[s].id).found
       /\ req' = [req EXCEPT ![s] = [@ EXCEPT !.pc = next, !.user = findOne(req[s].id).user]]
    \/ /\ ~findOne(req[s].id).found
       /\ req' = [req EXCEPT ![s] = Done(@, NOT_FOUND, "findOne", NoValue)]
    \/ req' = [req EXCEPT ![s] = Done(@, INTERNAL_SERVER_ERROR, "get", NoValue)]

StartFindOne(s, id) ==
    /\ CanStart(s)
    /\ req' = [req EXCEPT ![s] = [Begin("findOne", "findOne_get") EXCEPT !.id = id]]
    /\ started' = started + 1
    /\ UNCHANGED <<accounts, users, smtp, cookie, removed>>

FindOneGet(s) ==
    /\ req[s].pc = "findOne_get"
    /\ \/ /\ findOne(req[s].id).found
          /\ req' = [req EXCEPT ![s] = Done(@, OK, "none", findOne(req[s].id).user)]
       \/ /\ ~findOne(req[s].id).found
          /\ req' = [req EXCEPT ![s] = Done(@, NOT_FOUND, "findOne", NoValue)]
       \/ req' = [req EXCEPT ![s] = Done(@, INTERNAL_SERVER_ERROR, "get", NoValue)]
    /\ UNCHANGED <<accounts, users, smtp, cookie, removed, started>>

StartUpdate(s, id, model) ==
    /\ CanStart(s)
    /\ req' = [req EXCEPT ![s] = [Begin("update", "update_findOne") EXCEPT !.id = id, !.model = model]]
    /\ started' = started + 1
    /\ UNCHANGED <<accounts, users, smtp, cookie, removed>>

\* const user = await this.findOne(id)
UpdateFindOne(s) ==
    /\ req[s].pc = "update_findOne"
    /\ AwaitFindOne(s, "update_saveUser")
    /\ UNCHANGED <<accounts, users, smtp, cookie, removed, started>>

\* const updatedUser = { ...user, ...model }; await this.saveUser(id, updatedUser);
\* return updatedUser
UpdateSaveUser(s) ==
    /\ req[s].pc = "update_saveUser"
    /\ LET updatedUser == Spread(req[s].user, req[s].model) IN
       \/ /\ users' = SetDoc(users, req[s].id, updatedUser)
          /\ req' = [req EXCEPT ![s] = Done(@, OK, "none", updatedUser)]
       \/ /\ req' = [req EXCEPT ![s] = Done(@, INTERNAL_SERVER_ERROR, "saveUser", NoValue)]
          /\ UNCHANGED users
    /\ UNCHANGED <<accounts, smtp, cookie, removed, started>>

StartRemove(s, id) ==
    /\ CanStart(s)
    /\ req' = [req EXCEPT ![s] = [Begin("remove", "remove_findOne") EXCEPT !.id = id]]
    /\ started' = started + 1
    /\ UNCHANGED <<accounts, users, smtp, cookie, removed>>

\* const user = await this.findOne(id)
RemoveFindOne(s) ==
    /\ req[s].pc = "remove_findOne"
    /\ AwaitFindOne(s, "remove_delete")
    /\ UNCHANGED <<accounts, users, smtp, cookie, removed, started>>

\* await db.collection('users').doc(id).delete(); return user
RemoveDelete(s) ==
    /\ req[s].pc = "remove_delete"
    /\ \/ /\ users' = DeleteDoc(users, req[s].id)
          /\ removed' = removed \cup {req[s].id}
          /\ req' = [req EXCEPT ![s] = Done(@, OK, "none", req[s].user)]
       \/ /\ req' = [req EXCEPT ![s] = Done(@, INTERNAL_SERVER_ERROR, "delete", NoValue)]
          /\ UNCHANGED <<users, removed>>
    /\ UNCHANGED <<accounts, smtp, cookie, started>>

\* ======================= resending the verification link ================

\* What dbAuth.getUserByEmail(email) can answer: the account, or an error.
GetUserByEmailErrs(email) ==
    IF HasAccount(email) THEN OtherErrs ELSE {UserNotFoundErr} \cup OtherErrs

Lookup(err) == IF err.code = "auth/user-not-found" THEN "notfound" ELSE "other"

UidOf(email) == CHOOSE u \in AccountUids : accounts[u] = email

\* UserService.resendVerification, the catch around getUserByEmail: whatever
\* was raised becomes HttpException('Account not found', 404).
resendVerificationCatch(err) == NOT_FOUND

StartResendSvc(s, email) ==
    /\ CanStart(s)
    /\ req' = [req EXCEPT ![s] = [Begin("resendSvc", "rsvc_getUser") EXCEPT !.email = email]]
    /\ started' = started + 1
    /\ UNCHANGED <<accounts, users, smtp, cookie, removed>>

\* const user = await dbAuth.getUserByEmail(email); uid = user.uid
ResendSvcGetUser(s) ==
    /\ req[s].pc = "rsvc_getUser"
    /\ \/ /\ HasAccount(req[s].email)
          /\ req' = [req EXCEPT ![s] = [@ EXCEPT !.pc = "rsvc_send", !.lookup = "ok",
                                                 !.uid = UidOf(req[s].email)]]
       \/ \E err \in GetUserByEmailErrs(req[s].email) :
             req' = [req EXCEPT ![s] =
                        Done([@ EXCEPT !.lookup = Lookup(err), !.err = err],
                             resendVerificationCatch(err), "getUserByEmail", NoValue)]
    /\ UNCHANGED <<accounts, users, smtp, cookie, removed, started>>

\* What resendVerification does with the outcome of sendEmailVerification:
\* returns, or rethrows what the call threw.
ResendAfterEmail(r, out) ==
    Done([r EXCEPT !.linkGen = out.linkGen, !.sent = out.sent, !.emailRaised = out.raised],
         IF out.threw THEN INTERNAL_SERVER_ERROR ELSE OK,
         IF out.threw THEN out.raised ELSE "none", NoValue)

\* await this.sendEmailVerification(uid, email)
ResendSvcSend(s) ==
    /\ req[s].pc = "rsvc_send"
    /\ \E linkOk, sendOk \in BOOLEAN :
          req' = [req EXCEPT ![s] = ResendAfterEmail(@, sendEmailVerification(linkOk, sendOk))]
    /\ UNCHANGED <<accounts, users, smtp, cookie, removed, started>>

\* The controller's catch without the mapping of 'user not found'.
ctrlCatchUnmapped(err) == INTERNAL_SERVER_ERROR

\* AuthController.resendVerification, the catch around the whole body:
\* 404 when err.code is 'auth/user-not-found' or err.message includes 'user',
\* 500 otherwise.
ctrlCatch(err) ==
    IF err.code = "auth/user-not-found" \/ err.msgUser
    THEN NOT_FOUND
    ELSE INTERNAL_SERVER_ERROR

\* POST /auth/resend-verification; a missing email is 400 before any await.
StartResendCtrl(s, email) ==
    /\ CanStart(s)
    /\ req' = [req EXCEPT ![s] =
                 IF email = ""
                 THEN Done(Begin("resendCtrl", "done"), BAD_REQUEST, "email", NoValue)
                 ELSE [Begin("resendCtrl", "rctl_getUser") EXCEPT !.email = email]]
    /\ started' = started + 1
    /\ UNCHANGED <<accounts, users, smtp, cookie, removed>>

\* await dbAuth.getUserByEmail(email)
ResendCtrlGetUser(s) ==
    /\ req[s].pc = "rctl_getUser"
    /\ \/ /\ HasAccount(req[s].email)
          /\ req' = [req EXCEPT ![s] = [@ EXCEPT !.pc = "rctl_link", !.lookup = "ok"]]
       \/ \E err \in GetUserByEmailErrs(req[s].email) :
             req' = [req EXCEPT ![s] =
                        Done([@ EXCEPT !.lookup = Lookup(err), !.err = err],
                             ctrlCatch(err), "getUserByEmail", NoValue)]
    /\ UNCHANGED <<accounts, users, smtp, cookie, removed, started>>

\* const link = await dbAuth.generateEmailVerificationLink(email, ...); without
\* SMTP the link is logged and returned.
ResendCtrlLink(s) ==
    /\ req[s].pc = "rctl_link"
    /\ \/ req' = [req EXCEPT ![s] =
                    IF smtp
                    THEN [@ EXCEPT !.pc = "rctl_mail", !.linkGen = TRUE]
                    ELSE Done([@ EXCEPT !.linkGen = TRUE], OK, "none",
                              [success |-> TRUE, logged |-> TRUE, link |-> "link"])]
       \/ \E err \in OtherErrs :
             req' = [req EXCEPT ![s] =
                        Done([@ EXCEPT !.linkGen = TRUE, !.emailRaised = "link", !.err = err],
                             ctrlCatch(err), "link", NoValue)]
    /\ UNCHANGED <<accounts, users, smtp, cookie, removed, started>>

\* await transporter.sendMail({...}); return { success: true }
ResendCtrlMail(s) ==
    /\ req[s].pc = "rctl_mail"
    /\ \/ req' = [req EXCEPT ![s] = Done([@ EXCEPT !.sent = TRUE], OK, "none", [success |-> TRUE])]
       \/ \E err \in OtherErrs :
             req' = [req EXCEPT ![s] =
                        Done([@ EXCEPT !.sent = TRUE, !.emailRaised = "mail", !.err = err],
                             ctrlCatch(err), "mail", NoValue)]
    /\ UNCHANGED <<accounts, users, smtp, cookie, removed, started>>

\* ======================= AuthController.login / logout ==================

\* AuthService.login(loginDto): the identity token and user record, or
\* InvalidCredentials (401) when the provider does not verify the credentials.
authSvcLogin(credOk) ==
    IF credOk
    THEN [threw |-> FALSE, status |-> OK, result |-> [idToken |-> "token", role |-> "USER"]]
    ELSE [threw |-> TRUE, status |-> UNAUTHORIZED, result |-> NoValue]

\* res.cookie('sp_auth', payload, {httpOnly, sameSite: 'lax', maxAge, path: '/'})
\* (secure follows NODE_ENV and is left out: no handler reads it)
SessionCookie ==
    [name |-> "sp_auth", value |-> "payload", maxAge |-> twelveHoursMs,
     httpOnly |-> TRUE, sameSite |-> "lax", path |-> "/"]

\* logout setting the cookie with login's lifetime.
ClearedCookieKept ==
    [name |-> "sp_auth", value |-> "", maxAge |-> twelveHoursMs,
     httpOnly |-> TRUE, sameSite |-> "lax", path |-> "/"]

\* res.cookie('sp_auth', '', {httpOnly, sameSite: 'lax', maxAge: 0, path: '/'})
ClearedCookie ==
    [name |-> "sp_auth", value |-> "", maxAge |-> 0,
     httpOnly |-> TRUE, sameSite |-> "lax", path |-> "/"]

\* What the client's cookie becomes when a response carries setCookie.
Jar(setCookie) ==
    IF setCookie = NoValue THEN cookie
    ELSE IF setCookie.maxAge = 0 THEN "cleared" ELSE "session"

\* The credentials of loginDto matter only through what AuthService.login
\* answers, which LoginReturn draws.
StartLogin(s) ==
    /\ CanStart(s)
    /\ req' = [req EXCEPT ![s] = Begin("login", "login_authSvc")]
    /\ started' = started + 1
    /\ UNCHANGED <<accounts, users, smtp, cookie, removed>>

\* const result = await this.authSvc.login(loginDto); then the cookie, whose
\* encoding may raise (swallowed by the try/catch); return result.
LoginReturn(s) ==
    /\ req[s].pc = "login_authSvc"
    /\ \E credOk, encodeOk \in BOOLEAN :
          LET res == authSvcLogin(credOk)
              setCookie == IF ~res.threw /\ encodeOk THEN SessionCookie ELSE NoValue
          IN /\ req' = [req EXCEPT ![s] =
                           Done([@ EXCEPT !.setCookie = setCookie], res.status,
                                IF res.threw THEN "login" ELSE "none", res.result)]
             /\ cookie' = Jar(setCookie)
    /\ UNCHANGED <<accounts, users, smtp, removed, started>>

\* logout(res): no await; the cookie is set to empty with maxAge 0 and
\* { success: true } is returned.
Logout(s) ==
    /\ CanStart(s)
    /\ req' = [req EXCEPT ![s] =
                 Done([Begin("logout", "done") EXCEPT !.setCookie = ClearedCookie],
                      OK, "none", [success |-> TRUE])]
    /\ cookie' = Jar(ClearedCookie)
    /\ started' = started + 1
    /\ UNCHANGED <<accounts, users, smtp, removed>>

\* The response has been delivered; the slot is free for the next request.
Finish(s) ==
    /\ req[s].pc = "done"
    /\ req' = [req EXCEPT ![s] = Idle]
    /\ UNCHANGED <<accounts, users, smtp, cookie, removed, started>>

Next ==
    \/ \E s \in Slots, e \in Emails : StartCreate(s, e)
    \/ \E s \in Slots : CreateUser(s)
    \/ \E s \in Slots : CreateSaveUser(s)
    \/ \E s \in Slots : CreateSendEmail(s)
    \/ \E s \in Slots : CreateReread(s)
    \/ \E s \in Slots, id \in Uids : StartFindOne(s, id)
    \/ \E s \in Slots : FindOneGet(s)
    \/ \E s \in Slots, id \in Uids, m \in Partials : StartUpdate(s, id, m)
    \/ \E s \in Slots : UpdateFindOne(s)
    \/ \E s \in Slots : UpdateSaveUser(s)
    \/ \E s \in Slots, id \in Uids : StartRemove(s, id)
    \/ \E s \in Slots : RemoveFindOne(s)
    \/ \E s \in Slots : RemoveDelete(s)
    \/ \E s \in Slots, e \in Emails : StartResendSvc(s, e)
    \/ \E s \in Slots : ResendSvcGetUser(s)
    \/ \E s \in Slots : ResendSvcSend(s)
    \/ \E s \in Slots, e \in Emails \cup {""} : StartResendCtrl(s, e)
    \/ \E s \in Slots : ResendCtrlGetUser(s)
    \/ \E s \in Slots : ResendCtrlLink(s)
    \/ \E s \in Slots : ResendCtrlMail(s)
    \/ \E s \in Slots : Finish(s)

\* Account provisioning, profile CRUD and the resending of verification links.
Spec == Init /\ [][Next]_vars

\* Session issuance: login and logout share no state with the handlers above
\* (they touch neither the provider's accounts nor the 'users' collection).
NextAuth ==
    \/ \E s \in Slots : StartLogin(s)
    \/ \E s \in Slots : LoginReturn(s)
    \/ \E s \in Slots : Logout(s)
    \/ \E s \in Slots : Finish(s)

SpecAuth == Init /\ [][NextAuth]_vars

\* ======================= the claims =====================================

Quiescent == \A s \in Slots : req[s].pc \in {"idle", "done"}
Finished(s, op) == req[s].op = op /\ req[s].pc = "done"
Resends == {"resendSvc", "resendCtrl"}

\* C1: when create returns successfully, at that moment the account exists in
\* the identity provider, a document exists in 'users' under the account's
\* uid, and the returned profile's uid is that uid.
C1_CreateReturnsAccountAndDoc ==
    [][\A s \in Slots :
          (req[s].pc = "create_reread" /\ req'[s].pc = "done" /\ req'[s].status = OK)
          => /\ req[s].uid \in 1..Len(accounts')
             /\ req[s].uid \in DOMAIN users'
             /\ req'[s].ret.uid = req[s].uid]_vars

\* C2: the email step of create never ends the request and never touches the
\* document or the account, whatever the link generation and the SMTP send
\* do; a create that fails has failed at createUser, at the document write or
\* at the re-read.
C2_EmailNeverFailsCreate ==
    [][\A s \in Slots :
          /\ (req[s].pc = "create_email" /\ req'[s] # req[s])
             => /\ req'[s].pc = "create_reread"
                /\ users' = users
                /\ accounts' = accounts
          /\ (req'[s].op = "create" /\ req'[s].pc = "done" /\ req'[s].status # OK)
             => req'[s].cause \in {"createUser", "saveUser", "get", "nodata"}]_vars

C2_Witness ==
    \E s \in Slots :
        /\ Finished(s, "create") /\ req[s].status = OK
        /\ req[s].emailRaised = "mail"
        /\ req[s].uid \in DOMAIN users

\* C3: a resend (endpoint or service) for which getUserByEmail reported that
\* no such user exists ends with 404, without generateEmailVerificationLink
\* and without sendMail having been called.
C3_NoAccountIs404WithoutSmtp ==
    \A s \in Slots :
        (req[s].op \in Resends /\ req[s].lookup = "notfound")
        => /\ req[s].pc = "done"
           /\ req[s].status = NOT_FOUND
           /\ ~req[s].linkGen
           /\ ~req[s].sent

C3_Witness ==
    \E s, u \in Slots :
        /\ Finished(s, "resendSvc") /\ req[s].lookup = "notfound"
        /\ Finished(u, "resendCtrl") /\ req[u].lookup = "notfound"
        /\ smtp

\* C4: update never applies saveUser to an id that has no document in the
\* store at the time of the write.
C4_UpdateNeverWritesAbsentDoc ==
    [][\A s \in Slots :
          (req[s].pc = "update_saveUser" /\ req'[s].pc = "done" /\ req'[s].status = OK)
          => req[s].id \in DOMAIN users]_vars

\* Every request started so far has been answered, and answered with 200.
AllSucceeded ==
    /\ \A s \in Slots : req[s].pc = "done" => req[s].status = OK
    /\ started = Cardinality({s \in Slots : req[s].pc = "done"})

\* C5 (as claimed): once the requests have completed, none of them with an
\* exception, a document exists under a uid if and only if the identity
\* provider has an account with that uid.
C5_DocIffAccount ==
    (Quiescent /\ AllSucceeded)
    => \A u \in Uids : (u \in DOMAIN users) <=> (u \in AccountUids)

\* C5 (amended): every document of 'users' is stored under the uid of an
\* account that exists in the identity provider.
C5_DocImpliesAccount == \A u \in DOMAIN users : u \in AccountUids

C5_Witness ==
    /\ Quiescent
    /\ \E u \in AccountUids : u \notin DOMAIN users /\ u \in removed
    /\ \E u \in AccountUids : u \in DOMAIN users

\* C6 (as claimed): a resend whose sendMail raised, at the endpoint or in the
\* service, completes without an error.
C6_ResendSurvivesSendFailure ==
    \A s \in Slots :
        (req[s].op \in Resends /\ req[s].pc = "done" /\ req[s].emailRaised = "mail")
        => req[s].status = OK

\* C6 (amended): when sendMail raises, UserService.resendVerification returns
\* normally, and the POST /auth/resend-verification endpoint fails the request
\* with an HttpException (500, or 404 when the error's message contains 'user').
C6_ServiceSurvivesEndpointFails ==
    \A s \in Slots :
        (req[s].pc = "done" /\ req[s].emailRaised = "mail")
        => /\ req[s].op = "resendSvc" => req[s].status = OK
           /\ req[s].op = "resendCtrl" => req[s].status \in {NOT_FOUND, INTERNAL_SERVER_ERROR}

C6_Witness ==
    \E s, u \in Slots :
        /\ Finished(s, "resendSvc") /\ req[s].emailRaised = "mail" /\ req[s].sent
        /\ Finished(u, "resendCtrl") /\ req[u].emailRaised = "mail" /\ req[u].sent

\* C7: a resend ends with 404 only when the provider reported that no such
\* user exists; any other failure of getUserByEmail, and a failure of
\* generateEmailVerificationLink, ends with 500.
C7_Only404OnUserNotFound ==
    \A s \in Slots :
        (req[s].op \in Resends /\ req[s].pc = "done")
        => /\ req[s].status = NOT_FOUND => req[s].lookup = "notfound"
           /\ (req[s].lookup = "other" \/ req[s].emailRaised = "link")
              => req[s].status = INTERNAL_SERVER_ERROR

C9_UidIsTheKey == \A k \in DOMAIN users : users[k].uid = k

\* C10: once a Remove of id has deleted the document and every request has
\* finished, no document exists under id unless a later create wrote it.
C10_RemoveIsNotUndone ==
    Quiescent => \A id \in removed : id \notin DOMAIN users
====
